---- MODULE Spec2Model ----
(***************************************************************************)
(* grit: a playlist tracked locally (current snapshot, content-addressed   *)
(* history, staged patch, append-only journal) and reconciled with a       *)
(* remote provider (Spotify or YouTube).                                   *)
(*                                                                         *)
(* Indices inside TrackChange values are 0-based, as in the Rust source;   *)
(* TLA+ sequences are 1-based, so position p of a Vec is element p + 1.    *)
(* A Track is represented by its id, the only field the commands compare.  *)
(***************************************************************************)
EXTENDS Integers, Sequences, FiniteSets, TLC

\* ---------------------------------------------------------------- bounds
\* track ids and list length of the inputs of the pure diff/apply check
PureIds == 3
PureLen == 3
\* track ids, list length, staged changes and journal length of the
\* command-level model
NumIds == 2
MaxLen == 2
MaxStaged == 2
MaxJournal == 3
\* distinct remote snapshot ids (Spotify issues a new one on every change)
NumRevs == 1

ListsOver(ids, n) == UNION {[1..k -> ids] : k \in 0..n}

\* ------------------------------------------------------------ list tools
\* Vec::remove(p)
RemoveAt(s, p) == SubSeq(s, 1, p) \o SubSeq(s, p + 2, Len(s))

\* Vec::insert(p, x), defined for p <= len
InsertAt(s, p, x) == SubSeq(s, 1, p) \o <<x>> \o SubSeq(s, p + 1, Len(s))

\* Vec::retain(|t| t.id != x)
Without(s, x) == SelectSeq(s, LAMBDA t : t # x)

\* a position that falls back to the head of the list for a track not in it
PositionOrFirst(s, x) ==
    IF \E i \in 1..Len(s) : s[i] = x
    THEN (CHOOSE i \in 1..Len(s) : s[i] = x /\ \A m \in 1..(i - 1) : s[m] # x) - 1
    ELSE 0

\* iter().position(|t| t.id == x): 0-based index of the first x, -1 if none
Position(s, x) ==
    IF \E i \in 1..Len(s) : s[i] = x
    THEN (CHOOSE i \in 1..Len(s) : s[i] = x /\ \A m \in 1..(i - 1) : s[m] # x) - 1
    ELSE -1

\* Op of v, with v computed once before Op looks at it
Then(v, Op(_)) == CHOOSE out \in {Op(x) : x \in {v}} : TRUE

\* ----------------------------------------------------------- TrackChange
Added(t, i) == [kind |-> "Added", track |-> t, index |-> i]
Removed(t, i) == [kind |-> "Removed", track |-> t, index |-> i]
Moved(t, f, to) == [kind |-> "Moved", track |-> t, from |-> f, to |-> to]

OfKind(patch, k) == SelectSeq(patch, LAMBDA c : c.kind = k)

\* ------------------------------------------------------------------ diff
\* queues that hold the base positions of an identity latest first
RECURSIVE BuildQueuesBack(_, _, _)
BuildQueuesBack(base, i, q) ==
    IF i > Len(base) THEN q
    ELSE BuildQueuesBack(base, i + 1,
                         [q EXCEPT ![base[i]] = <<i - 1>> \o @])

\* identity -> queue of base positions (0-based), in base order
RECURSIVE BuildQueues(_, _, _)
BuildQueues(base, i, q) ==
    IF i > Len(base) THEN q
    ELSE BuildQueues(base, i + 1,
                     [q EXCEPT ![base[i]] = Append(@, i - 1)])

\* a scan that matches a target position with the first queued base position
\* of its identity and leaves it queued
RECURSIVE ScanTargetFront(_, _, _, _, _)
ScanTargetFront(target, j, q, added, moved) ==
    IF j > Len(target) THEN [queues |-> q, added |-> added, moved |-> moved]
    ELSE LET x == target[j] IN
         IF q[x] = <<>>
         THEN ScanTargetFront(target, j + 1, q, Append(added, Added(x, j - 1)), moved)
         ELSE LET b == Head(q[x]) IN
              ScanTargetFront(target, j + 1, q, added,
                              IF b # j - 1 THEN Append(moved, Moved(x, b, j - 1))
                                           ELSE moved)

\* a scan that reports every matched target position as Moved
RECURSIVE ScanTargetAll(_, _, _, _, _)
ScanTargetAll(target, j, q, added, moved) ==
    IF j > Len(target) THEN [queues |-> q, added |-> added, moved |-> moved]
    ELSE LET x == target[j] IN
         IF q[x] = <<>>
         THEN ScanTargetAll(target, j + 1, q, Append(added, Added(x, j - 1)), moved)
         ELSE ScanTargetAll(target, j + 1, [q EXCEPT ![x] = Tail(@)], added,
                            Append(moved, Moved(x, Head(q[x]), j - 1)))

\* one pass over target: a target position whose identity still has a queued
\* base position is matched with it (Moved when the position differs),
\* otherwise it is Added
RECURSIVE ScanTarget(_, _, _, _, _)
ScanTarget(target, j, q, added, moved) ==
    IF j > Len(target) THEN [queues |-> q, added |-> added, moved |-> moved]
    ELSE LET x == target[j] IN
         IF q[x] = <<>>
         THEN ScanTarget(target, j + 1, q, Append(added, Added(x, j - 1)), moved)
         ELSE LET b == Head(q[x]) IN
              ScanTarget(target, j + 1, [q EXCEPT ![x] = Tail(@)], added,
                         IF b # j - 1 THEN Append(moved, Moved(x, b, j - 1))
                                      ELSE moved)

\* base positions left in the queues, in base order
RECURSIVE Leftover(_, _, _)
Leftover(base, i, q) ==
    IF i > Len(base) THEN <<>>
    ELSE (IF \E k \in 1..Len(q[base[i]]) : q[base[i]][k] = i - 1
          THEN <<Removed(base[i], i - 1)>> ELSE <<>>)
         \o Leftover(base, i + 1, q)

\* a diff that lists the changes in the order the scans find them
diff_scan_order(base, target) ==
    LET ids == {base[i] : i \in 1..Len(base)} \cup {target[j] : j \in 1..Len(target)}
        q0 == BuildQueues(base, 1, [x \in ids |-> <<>>])
        r == ScanTarget(target, 1, q0, <<>>, <<>>)
    IN r.added \o r.moved \o Leftover(base, 1, r.queues)

diff(base, target) ==
    LET ids == {base[i] : i \in 1..Len(base)} \cup {target[j] : j \in 1..Len(target)}
        q0 == BuildQueues(base, 1, [x \in ids |-> <<>>])
        r == ScanTarget(target, 1, q0, <<>>, <<>>)
    IN Leftover(base, 1, r.queues) \o r.added \o r.moved

\* ----------------------------------------------------------- apply_patch
RECURSIVE DeleteRemoved(_, _)
DeleteRemoved(work, rem) ==
    IF rem = <<>> THEN work
    ELSE DeleteRemoved(Without(work, Head(rem).track), Tail(rem))

\* stable sort of the Added changes by index, lowest first
RECURSIVE SortByIndex(_)
SortByIndex(adds) ==
    IF adds = <<>> THEN <<>>
    ELSE LET lo == CHOOSE i \in 1..Len(adds) :
                     /\ \A m \in 1..Len(adds) : adds[i].index <= adds[m].index
                     /\ \A m \in 1..(i - 1) : adds[m].index # adds[i].index
         IN <<adds[lo]>> \o SortByIndex(RemoveAt(adds, lo - 1))

RECURSIVE InsertAdded(_, _)
InsertAdded(res, adds) ==
    IF adds = <<>> \/ ~res.ok THEN res
    ELSE LET c == Head(adds) IN
         IF c.index > Len(res.tracks) THEN [ok |-> FALSE, tracks |-> res.tracks]
         ELSE InsertAdded([ok |-> TRUE, tracks |-> InsertAt(res.tracks, c.index, c.track)],
                          Tail(adds))

RECURSIVE Relocate(_, _)
Relocate(res, mvs) ==
    IF mvs = <<>> \/ ~res.ok THEN res
    ELSE LET c == Head(mvs)
             n == Len(res.tracks)
         IN IF c.from >= n \/ c.to >= n THEN [ok |-> FALSE, tracks |-> res.tracks]
            ELSE Relocate([ok |-> TRUE,
                           tracks |-> InsertAt(RemoveAt(res.tracks, c.from), c.to,
                                               res.tracks[c.from + 1])],
                          Tail(mvs))

\* an application that replays the changes one by one in the order staged
RECURSIVE apply_patch_as_staged(_, _)
apply_patch_as_staged(tracks, patch) ==
    IF patch = <<>> THEN [ok |-> TRUE, tracks |-> tracks]
    ELSE LET c == Head(patch)
             res == CASE c.kind = "Removed" ->
                           [ok |-> TRUE, tracks |-> Without(tracks, c.track)]
                      [] c.kind = "Added" ->
                           InsertAdded([ok |-> TRUE, tracks |-> tracks], <<c>>)
                      [] c.kind = "Moved" ->
                           Relocate([ok |-> TRUE, tracks |-> tracks], <<c>>)
         IN IF ~res.ok THEN res ELSE apply_patch_as_staged(res.tracks, Tail(patch))

\* three phases: Removed by identity, Added lowest index first, Moved last
apply_patch(tracks, patch) ==
    LET p1 == DeleteRemoved(tracks, OfKind(patch, "Removed"))
        p2 == InsertAdded([ok |-> TRUE, tracks |-> p1], SortByIndex(OfKind(patch, "Added")))
    IN Relocate(p2, OfKind(patch, "Moved"))

\* ------------------------------------------------------------- snapshots
\* a file: NoFile when path.exists() is false, File(content) otherwise
NoFile == <<>>
File(content) == <<content>>
Exists(file) == file # NoFile
Content(file) == file[1]

ProviderKind == {"Spotify", "Youtube"}
TrackIds == 1..NumIds
TrackLists == ListsOver(TrackIds, MaxLen)

\* values of the snapshot_hash field: the remote's snapshot id
SnapshotIds == 0..(NumRevs - 1)

PlaylistSnapshot(tracks, provider, sid) ==
    [tracks |-> tracks, provider |-> provider, snapshot_hash |-> sid]

\* The 12 hex digits of the SHA-256 of the YAML of every field of the
\* snapshot (the snapshot_hash field included), as a fixed-format string:
\* distinct snapshots get distinct strings, none a prefix of another.
compute_hash(s) == <<s.provider, s.snapshot_hash, Len(s.tracks)>> \o s.tracks

\* str::starts_with
starts_with(h, prefix) ==
    Len(prefix) <= Len(h) /\ SubSeq(h, 1, Len(prefix)) = prefix

\* a save_by_hash that writes nothing
save_by_hash_skipped(hist, s, h) == hist

\* history/<hash>.yaml is written with the snapshot
save_by_hash(hist, s, h) ==
    [x \in DOMAIN hist \cup {h} |-> IF x = h THEN s ELSE hist[x]]

\* a load_by_hash that takes the first directory entry whatever its name
load_by_hash_any(hist, h) == DOMAIN hist

\* the stored hashes load_by_hash may return for a (partial) hash: the first
\* directory entry whose name starts with it, in read_dir's unspecified order
load_by_hash(hist, h) == {x \in DOMAIN hist : starts_with(x, h)}

\* ---------------------------------------------------------------- staging
\* a load_staged that finds no file
load_staged_missing(file) == <<>>

\* a parse that accepts whatever the file holds
parse_staged_lenient(file) == TRUE

\* serde_json::from_str(&contents) of load_staged succeeds: there is no
\* file (nothing to parse) or the file holds one whole patch; a file that
\* holds part of a write does not parse
parse_staged(file) == ~Exists(file) \/ Len(file) = 1

\* staging::load_staged
load_staged(file) == IF ~Exists(file) THEN <<>> ELSE Content(file)
save_staged(p) == File(p)

\* staging::clear_staged
clear_staged == save_staged(<<>>)

\* a stage_change that writes the new change alone
stage_change_alone(file, change) == save_staged(<<change>>)

\* staging::stage_change
stage_change(file, change) == save_staged(Append(load_staged(file), change))

\* ---------------------------------------------------------------- journal
JournalEntry(op, hash, added, removed, moved) ==
    [operation |-> op, snapshot_hash |-> hash, added |-> added,
     removed |-> removed, moved |-> moved, message |-> "None"]

new_with_message(op, hash, added, removed, moved, msg) ==
    [JournalEntry(op, hash, added, removed, moved) EXCEPT !.message = msg]

read_all(file) == IF ~Exists(file) THEN <<>> ELSE Content(file)

\* enum Operation, and a line of the log that is no JournalEntry
Operation == {"Init", "Pull", "Push", "Apply", "Commit"}
Garbled == JournalEntry("garbled", <<>>, 0, 0, 0)

\* serde_json::from_str(ln) succeeds on every line of the log
parse_lines(file) ==
    \A i \in 1..Len(read_all(file)) : read_all(file)[i].operation \in Operation

\* an append that opens the file with truncate instead of append
append_truncating(file, entry) == File(<<entry>>)

\* OpenOptions create(true).append(true), then one line
append(file, entry) == File(Append(read_all(file), entry))

CountKind(p, k) == Len(OfKind(p, k))

\* ------------------------------------------------------- remote: Spotify
\* DELETE /playlists/{id}/tracks {tracks: [{uri}]}: every occurrence goes
SpotifyDelete(tracks, c) == [ok |-> TRUE, tracks |-> Without(tracks, c.track)]

\* POST /playlists/{id}/tracks {uris: [uri], position}
SpotifyInsert(tracks, c) ==
    IF c.index > Len(tracks) THEN [ok |-> FALSE, tracks |-> tracks]
    ELSE [ok |-> TRUE, tracks |-> InsertAt(tracks, c.index, c.track)]

\* a reorder that passes `to` as insert_before in both directions
SpotifyReorderPlain(tracks, c) ==
    LET insert_before == c.to
        rest == RemoveAt(tracks, c.from)
        at == IF insert_before > c.from THEN insert_before - 1 ELSE insert_before
    IN IF c.from >= Len(tracks) \/ insert_before > Len(tracks)
       THEN [ok |-> FALSE, tracks |-> tracks]
       ELSE [ok |-> TRUE, tracks |-> InsertAt(rest, at, tracks[c.from + 1])]

\* PUT /playlists/{id}/tracks {range_start, insert_before, range_length: 1}
SpotifyReorder(tracks, c) ==
    LET insert_before == IF c.from < c.to THEN c.to + 1 ELSE c.to
        rest == RemoveAt(tracks, c.from)
        at == IF insert_before > c.from THEN insert_before - 1 ELSE insert_before
    IN IF c.from >= Len(tracks) \/ insert_before > Len(tracks)
       THEN [ok |-> FALSE, tracks |-> tracks]
       ELSE [ok |-> TRUE, tracks |-> InsertAt(rest, at, tracks[c.from + 1])]

SpotifyCall(tracks, c) ==
    CASE c.kind = "Removed" -> SpotifyDelete(tracks, c)
      [] c.kind = "Added" -> SpotifyInsert(tracks, c)
      [] c.kind = "Moved" -> SpotifyReorder(tracks, c)

\* the requests of apply, one per change, in three passes over the patch
SpotifyCalls(p) == OfKind(p, "Removed") \o OfKind(p, "Added") \o OfKind(p, "Moved")

\* a run that reports a failed request and goes on with the next one
RECURSIVE SpotifyRunOn(_, _, _)
SpotifyRunOn(r, calls, failAt) ==
    IF calls = <<>> THEN r
    ELSE LET res == SpotifyCall(r.tracks, Head(calls))
             lost == r.calls + 1 = failAt \/ ~res.ok
         IN SpotifyRunOn([r EXCEPT !.tracks = IF lost THEN @ ELSE res.tracks,
                                   !.calls = @ + 1,
                                   !.halted = @ \/ lost,
                                   !.log = Append(@, Head(calls).kind),
                                   !.trace = Append(@, Head(calls).kind)],
                         Tail(calls), failAt)

\* run state: remote tracks, mutation calls that succeeded (calls: how many,
\* log: the kind of change each one carried), halted: a request failed (send
\* error or error status) and `?` returned, trace: the requests answered in
\* the order they were sent, a mutation call by its kind and a read of the
\* remote playlist as "Fetch"
\* failAt: the number of the mutation call whose request fails in transit
\* (0: none does)
RECURSIVE SpotifyRun(_, _, _)
SpotifyRun(r, calls, failAt) ==
    IF calls = <<>> \/ r.halted THEN r
    ELSE IF r.calls + 1 = failAt THEN [r EXCEPT !.halted = TRUE]
    ELSE LET res == SpotifyCall(r.tracks, Head(calls)) IN
         IF ~res.ok THEN [r EXCEPT !.halted = TRUE]
         ELSE Then([r EXCEPT !.tracks = res.tracks, !.calls = @ + 1,
                             !.log = Append(@, Head(calls).kind),
                             !.trace = Append(@, Head(calls).kind)],
                   LAMBDA done : SpotifyRun(done, Tail(calls), failAt))

SpotifyApply(tracks, p, failAt) ==
    SpotifyRun([tracks |-> tracks, calls |-> 0, halted |-> FALSE, log |-> <<>>,
                trace |-> <<>>],
               SpotifyCalls(p), failAt)

\* ------------------------------------------------------- remote: YouTube
\* playlist items are (item id, video id) pairs; the item id of a track of
\* the fetched list is its position in that list
Items(tracks) == [i \in 1..Len(tracks) |-> [item |-> i, vid |-> tracks[i]]]
Vids(items) == [i \in 1..Len(items) |-> items[i].vid]

\* playlist_items.iter().find(|(_, vid)| vid == id)
FindItem(items, id) ==
    LET p == Position(Vids(items), id) IN IF p < 0 THEN 0 ELSE items[p + 1].item

\* step 1: DELETE playlistItems?id=item_id, the item looked up in the list
\* fetched before the loop
RECURSIVE YtRemove(_, _, _, _)
YtRemove(r, baseline, rem, failAt) ==
    IF rem = <<>> \/ r.halted THEN r
    ELSE LET item == FindItem(baseline, Head(rem).track) IN
         IF item = 0 THEN YtRemove(r, baseline, Tail(rem), failAt)
         ELSE IF r.calls + 1 = failAt \/ ~\E i \in 1..Len(r.items) : r.items[i].item = item
         THEN [r EXCEPT !.halted = TRUE]
         ELSE Then([r EXCEPT !.items = SelectSeq(@, LAMBDA it : it.item # item),
                             !.calls = @ + 1, !.log = Append(@, "Removed"),
                             !.trace = Append(@, "Removed")],
                   LAMBDA done : YtRemove(done, baseline, Tail(rem), failAt))

\* step 2: POST playlistItems without a position appends
RECURSIVE YtAdd(_, _, _)
YtAdd(r, adds, failAt) ==
    IF adds = <<>> \/ r.halted THEN r
    ELSE IF r.calls + 1 = failAt THEN [r EXCEPT !.halted = TRUE]
    ELSE Then([r EXCEPT !.items = Append(@, [item |-> r.fresh, vid |-> Head(adds).track]),
                        !.calls = @ + 1, !.fresh = @ + 1, !.log = Append(@, "Added"),
                        !.trace = Append(@, "Added")],
              LAMBDA done : YtAdd(done, Tail(adds), failAt))

\* step 3: for each desired index, re-fetch (self.fetch, then
\* fetch_playlist_item_ids), and PUT the first item holding the desired track
\* to that position when it is elsewhere
RECURSIVE YtReorder(_, _, _, _)
YtReorder(r, desired, idx, failAt) ==
    IF idx >= Len(desired) \/ r.halted THEN r
    ELSE LET current_idx == Position(Vids(r.items), desired[idx + 1])
             read == r.trace \o <<"Fetch", "Fetch">>
         IN
         IF current_idx < 0 \/ current_idx = idx
         THEN Then([r EXCEPT !.trace = read],
                   LAMBDA seen : YtReorder(seen, desired, idx + 1, failAt))
         ELSE IF r.calls + 1 = failAt \/ idx >= Len(r.items)
         THEN [r EXCEPT !.halted = TRUE, !.trace = read]
         ELSE Then([r EXCEPT !.items = InsertAt(RemoveAt(@, current_idx), idx,
                                               r.items[current_idx + 1]),
                             !.calls = @ + 1, !.log = Append(@, "Moved"),
                             !.trace = Append(read, "Moved")],
                   LAMBDA done : YtReorder(done, desired, idx + 1, failAt))

YoutubeApply(tracks, p, desired, failAt) ==
    LET r0 == [items |-> Items(tracks), calls |-> 0, halted |-> FALSE,
               fresh |-> Len(tracks) + 1, log |-> <<>>, trace |-> <<"Fetch">>]
        step1(r) == YtRemove(r, Items(tracks), OfKind(p, "Removed"), failAt)
        step2(r) == YtAdd(r, OfKind(p, "Added"), failAt)
        step3(r) == YtReorder(r, desired, 0, failAt)
        result(r) == [tracks |-> Vids(r.items), calls |-> r.calls, halted |-> r.halted,
                      log |-> r.log, trace |-> r.trace]
    IN Then(Then(Then(Then(r0, step1), step2), step3), result)

\* Provider::apply of the playlist's provider
ProviderApply(provider, tracks, p, desired, failAt) ==
    IF provider = "Spotify" THEN SpotifyApply(tracks, p, failAt)
    ELSE YoutubeApply(tracks, p, desired, failAt)

\* ------------------------------------------------------------------ state
VARIABLES
    current,    \* playlist.yaml: NoFile or the live PlaylistSnapshot
    history,    \* snapshots/<hash>.yaml: hash -> PlaylistSnapshot
    staged,     \* staged.json: NoFile or the staged DiffPatch
    journal,    \* journal.log: NoFile or the lines written, oldest first
    remote,     \* the playlist on the provider: [tracks, provider, snapshot_id]
    last,       \* the command that ran last: [op, args, outcome, calls, fetched]
    appended,   \* every entry handed to JournalEntry::append, in call order
    base,       \* diff check: the track list diffed from
    target,     \* diff check: the track list diffed to
    patch,      \* diff check: diff(base, target)
    applied,    \* diff check: apply_patch(base, patch), [ok, tracks]
    pc          \* diff check: "start", "diffed", "applied"; "cmd" in Spec
\* The last five hold the inputs and results of the checks of single
\* functions and steps, each described at its Init: SpecHash keeps the two
\* snapshots in base and target and their hashes in patch, SpecCrash the
\* write in progress in applied and the file read back in target.

cmdVars == <<current, history, staged, journal, remote, last, appended>>
pureVars == <<base, target, patch, applied, pc>>
vars == <<current, history, staged, journal, remote, last, appended,
          base, target, patch, applied, pc>>

\* the four pieces of on-disk state of the playlist
disk == <<current, history, staged, journal>>

\* the outcome of a command: "ok", "noop" (it found nothing to do) or "err";
\* args: what it was given (its arguments, then the remote it fetched, when
\* it got that far); calls: the remote mutation calls that succeeded;
\* fetched: whether it got as far as a remote read
Result(op, args, outcome, calls, fetched) ==
    [op |-> op, args |-> args, outcome |-> outcome, calls |-> calls, fetched |-> fetched]

\* the command returns
Ran(op, args, outcome, calls, fetched) ==
    /\ last' = Result(op, args, outcome, calls, fetched)
    /\ UNCHANGED pureVars

\* bail!/? before any write or remote call
Fails(op, args) ==
    /\ Ran(op, args, "err", 0, FALSE)
    /\ UNCHANGED <<current, history, staged, journal, remote, appended>>

\* staged.json or a line of journal.log did not parse: `?` returns the error
ParseFails(op, args, fetched) ==
    /\ Ran(op, args, "err", 0, fetched)
    /\ UNCHANGED <<current, history, staged, journal, remote, appended>>

\* a remote read failed: nothing written, no mutation call issued
FetchFails(op, args) ==
    /\ Ran(op, args, "err", 0, TRUE)
    /\ UNCHANGED <<current, history, staged, journal, remote, appended>>

\* a command that drops its journal entry
JournalDropped(entry) == UNCHANGED <<journal, appended>>

\* JournalEntry::append(&journal_path, &entry)
Journal(entry) ==
    /\ journal' = append(journal, entry)
    /\ appended' = Append(appended, entry)

\* no command has run, or the last one has exited
Idle == Result("none", <<>>, "ok", 0, FALSE)

\* a command starts when the one before it has exited; the journal is kept
\* within MaxJournal lines
Ready == last.op = "none" /\ Len(read_all(journal)) < MaxJournal

\* the snapshot id of the remote after a change: Spotify issues another one,
\* YouTube has none (the field is "yt-<playlist id>")
NextIds == IF remote.provider = "Spotify" /\ NumRevs > 1
           THEN SnapshotIds \ {remote.snapshot_id}
           ELSE {remote.snapshot_id}

\* The playlist as a command finds it on the provider: as the last exchange
\* left it, or changed by someone else since. Nothing reads the remote
\* between two exchanges, so the edits made in between surface at the next
\* exchange that gets through (a read that fails shows nothing of them).
RemoteNow ==
    {remote} \cup [tracks : TrackLists, provider : {remote.provider}, snapshot_id : NextIds]

\* Provider::fetch, with the provider holding r
Fetch(r) == PlaylistSnapshot(r.tracks, r.provider, r.snapshot_id)

PureIdle ==
    /\ base = <<>>
    /\ target = <<>>
    /\ patch = <<>>
    /\ applied = [ok |-> TRUE, tracks |-> <<>>]
    /\ pc = "cmd"

CmdIdle ==
    /\ current = NoFile
    /\ history = <<>>
    /\ staged = NoFile
    /\ journal = NoFile
    /\ last = Idle
    /\ appended = <<>>

Init ==
    /\ CmdIdle
    /\ remote \in [tracks : TrackLists, provider : ProviderKind, snapshot_id : {0}]
    /\ PureIdle

\* --------------------------------------------------------------- commands
\* snapshot::load(&snapshot_path)
local == Content(current)

\* the rest of init once the playlist is known not to be tracked
InitFresh(provider, seen, fetchOk) ==
    IF ~fetchOk \/ provider # remote.provider THEN FetchFails("init", <<provider>>)
    ELSE LET playlist == Fetch(seen)
             hash == compute_hash(playlist)
         IN /\ current' = File(playlist)
            /\ history' = save_by_hash(history, playlist, hash)
            /\ Journal(JournalEntry("Init", hash, Len(playlist.tracks), 0, 0))
            /\ staged' = clear_staged
            /\ Ran("init", <<provider, seen>>, "ok", 0, TRUE)
            /\ remote' = seen

\* an init that does not look for an existing playlist.yaml
init_run_unguarded(provider, seen, fetchOk) ==
    /\ Ready
    /\ InitFresh(provider, seen, fetchOk)

\* grit init
init_run(provider, seen, fetchOk) ==
    /\ Ready
    /\ IF Exists(current) THEN Fails("init", <<provider>>)
       ELSE InitFresh(provider, seen, fetchOk)

\* grit add <track-id>
add(track_id, fetchOk) ==
    /\ Ready
    /\ Len(load_staged(staged)) < MaxStaged
    /\ Exists(current) =>
         Len(local.tracks) + CountKind(load_staged(staged), "Added") < MaxLen
    /\ IF ~Exists(current) THEN Fails("add", <<track_id>>)
       ELSE IF ~fetchOk THEN FetchFails("add", <<track_id>>)
       ELSE IF ~parse_staged(staged) THEN ParseFails("add", <<track_id>>, TRUE)
       ELSE /\ staged' = stage_change(staged, Added(track_id, Len(local.tracks)))
            /\ Ran("add", <<track_id>>, "ok", 0, TRUE)
            /\ UNCHANGED <<current, history, journal, remote, appended>>

\* grit remove <track-id>
remove(track_id) ==
    /\ Ready
    /\ Len(load_staged(staged)) < MaxStaged
    /\ IF ~Exists(current) THEN Fails("remove", <<track_id>>)
       ELSE LET index == Position(local.tracks, track_id) IN
            IF index < 0 THEN Fails("remove", <<track_id>>)
            ELSE IF ~parse_staged(staged) THEN ParseFails("remove", <<track_id>>, FALSE)
            ELSE /\ staged' = stage_change(staged, Removed(track_id, index))
                 /\ Ran("remove", <<track_id>>, "ok", 0, FALSE)
                 /\ UNCHANGED <<current, history, journal, remote, appended>>

\* grit move <track-id> <new-index>
move_track(track_id, new_index) ==
    /\ Ready
    /\ Len(load_staged(staged)) < MaxStaged
    /\ IF ~Exists(current) THEN Fails("move", <<track_id, new_index>>)
       ELSE LET from_index == Position(local.tracks, track_id) IN
            IF from_index < 0 THEN Fails("move", <<track_id, new_index>>)
            ELSE IF from_index = new_index THEN Fails("move", <<track_id, new_index>>)
            ELSE IF new_index >= Len(local.tracks)
            THEN Fails("move", <<track_id, new_index>>)
            ELSE IF ~parse_staged(staged)
            THEN ParseFails("move", <<track_id, new_index>>, FALSE)
            ELSE /\ staged' = stage_change(staged, Moved(track_id, from_index, new_index))
                 /\ Ran("move", <<track_id, new_index>>, "ok", 0, FALSE)
                 /\ UNCHANGED <<current, history, journal, remote, appended>>

\* a reset that reports the changes dropped and leaves staged.json as it is
reset_reporting ==
    /\ Ready
    /\ IF ~Exists(current) THEN Fails("reset", <<>>)
       ELSE /\ Ran("reset", <<>>, IF load_staged(staged) = <<>> THEN "noop" ELSE "ok",
                   0, FALSE)
            /\ UNCHANGED <<current, history, staged, journal, remote, appended>>

\* grit reset
reset ==
    /\ Ready
    /\ IF ~Exists(current) THEN Fails("reset", <<>>)
       ELSE IF ~parse_staged(staged) THEN ParseFails("reset", <<>>, FALSE)
       ELSE IF load_staged(staged) = <<>>
       THEN /\ Ran("reset", <<>>, "noop", 0, FALSE)
            /\ UNCHANGED <<current, history, staged, journal, remote, appended>>
       ELSE /\ staged' = clear_staged
            /\ Ran("reset", <<>>, "ok", 0, FALSE)
            /\ UNCHANGED <<current, history, journal, remote, appended>>

\* grit commit -m <message>
commit(message) ==
    /\ Ready
    /\ IF ~Exists(current) THEN Fails("commit", <<message>>)
       ELSE IF ~parse_staged(staged) THEN ParseFails("commit", <<message>>, FALSE)
       ELSE LET p == load_staged(staged) IN
            IF p = <<>>
            THEN /\ Ran("commit", <<message>>, "noop", 0, FALSE)
                 /\ UNCHANGED <<current, history, staged, journal, remote, appended>>
            ELSE LET res == apply_patch(local.tracks, p)
                     snapshot_copy == [local EXCEPT !.tracks = res.tracks]
                     hash == compute_hash(snapshot_copy)
                 IN IF ~res.ok THEN Fails("commit", <<message>>)
                    ELSE /\ history' = save_by_hash(history, snapshot_copy, hash)
                         /\ current' = File(snapshot_copy)
                         /\ Journal(new_with_message("Commit", hash,
                                        CountKind(p, "Added"), CountKind(p, "Removed"),
                                        CountKind(p, "Moved"), message))
                         /\ staged' = clear_staged
                         /\ Ran("commit", <<message>>, "ok", 0, FALSE)
                         /\ UNCHANGED remote

\* a permission check that lets every caller through
can_modify_anyone(env) == TRUE

\* provider.can_modify_playlist(playlist_id).await?, then `if !can_modify`
can_modify(env) == env # "denied"

\* grit push
\* env: "denied" (can_modify_playlist answers false or fails), "fetch" (the
\* fetch fails), "late" (a read inside apply fails after the last mutation
\* call), "ok"; failAt: the mutation call whose request fails (0: none)
push(seen, env, failAt) ==
    /\ Ready
    /\ IF ~Exists(current) THEN Fails("push", <<env, failAt>>)
       ELSE IF ~parse_staged(staged) THEN ParseFails("push", <<env, failAt>>, FALSE)
       ELSE IF load_staged(staged) # <<>> THEN Fails("push", <<env, failAt>>)
       ELSE IF ~can_modify(env) THEN Fails("push", <<env, failAt>>)
       ELSE IF env = "fetch" THEN FetchFails("push", <<env, failAt>>)
       ELSE LET remote_snapshot == Fetch(seen)
                p == diff(remote_snapshot.tracks, local.tracks)
            IN IF p = <<>>
               THEN /\ Ran("push", <<env, failAt, seen>>, "noop", 0, TRUE)
                    /\ remote' = seen
                    /\ UNCHANGED <<current, history, staged, journal, appended>>
               ELSE LET r == ProviderApply(local.provider, seen.tracks, p,
                                           local.tracks, failAt)
                        failed == r.halted \/ env = "late"
                    IN /\ IF r.calls = 0
                          THEN remote' = IF failed THEN remote ELSE seen
                          ELSE \E id \in NextIds :
                                 remote' = [seen EXCEPT !.tracks = r.tracks,
                                                        !.snapshot_id = id]
                       /\ IF failed
                          THEN /\ Ran("push", <<env, failAt, seen>>, "err", r.calls, TRUE)
                               /\ UNCHANGED <<journal, appended>>
                          ELSE /\ Journal(JournalEntry("Push", compute_hash(local),
                                              CountKind(p, "Added"), CountKind(p, "Removed"),
                                              CountKind(p, "Moved")))
                               /\ Ran("push", <<env, failAt, seen>>, "ok", r.calls, TRUE)
                       /\ UNCHANGED <<current, history, staged>>

\* a pull that brings current up to date by applying the patch to it
PullPatch(remote_snapshot, p) ==
    /\ current' = File([local EXCEPT !.tracks = apply_patch(local.tracks, p).tracks,
                                     !.snapshot_hash = remote_snapshot.snapshot_hash])
    /\ Journal(JournalEntry("Pull", compute_hash(remote_snapshot), CountKind(p, "Added"),
                   CountKind(p, "Removed"), CountKind(p, "Moved")))

\* a pull that logs the hash of the snapshot it replaces
PullLogsLocal(remote_snapshot, p) ==
    /\ current' = File(remote_snapshot)
    /\ Journal(JournalEntry("Pull", compute_hash(local), CountKind(p, "Added"),
                   CountKind(p, "Removed"), CountKind(p, "Moved")))

\* the rest of pull once the hashes differ: save the remote snapshot as
\* current and log it
PullTake(remote_snapshot, p) ==
    /\ current' = File(remote_snapshot)
    /\ Journal(JournalEntry("Pull", compute_hash(remote_snapshot), CountKind(p, "Added"),
                   CountKind(p, "Removed"), CountKind(p, "Moved")))

\* grit pull
pull(seen, fetchOk) ==
    /\ Ready
    /\ IF ~Exists(current) THEN Fails("pull", <<>>)
       ELSE IF ~parse_staged(staged) THEN ParseFails("pull", <<>>, FALSE)
       ELSE IF load_staged(staged) # <<>> THEN Fails("pull", <<>>)
       ELSE IF ~fetchOk THEN FetchFails("pull", <<>>)
       ELSE LET remote_snapshot == Fetch(seen)
                local_hash == compute_hash(local)
                remote_hash == compute_hash(remote_snapshot)
                p == diff(local.tracks, remote_snapshot.tracks)
            IN IF local_hash = remote_hash
               THEN /\ Ran("pull", <<seen>>, "noop", 0, TRUE)
                    /\ remote' = seen
                    /\ UNCHANGED <<current, history, staged, journal, appended>>
               ELSE /\ PullTake(remote_snapshot, p)
                    /\ Ran("pull", <<seen>>, "ok", 0, TRUE)
                    /\ remote' = seen
                    /\ UNCHANGED <<history, staged>>

\* the hash arguments tried: every prefix (the empty one too) of every hash
\* the log or the snapshots directory shows, and of one that neither has
AllSnapshots == [tracks : TrackLists, provider : ProviderKind, snapshot_hash : SnapshotIds]
Prefixes(h) == {SubSeq(h, 1, k) : k \in 0..Len(h)}
Hashes(entries) == {entries[i].snapshot_hash : i \in 1..Len(entries)}
Unknown == compute_hash(PlaylistSnapshot(<<>>, "Spotify", NumRevs))
HashArgs ==
    UNION {Prefixes(h) : h \in DOMAIN history \cup Hashes(read_all(journal)) \cup {Unknown}}

\* Option<&str>
None == <<"None">>
Some(h) == <<"Some", h>>

\* the hash of HEAD itself: entries[entries.len() - 1]
head_hash(entries) == entries[Len(entries)].snapshot_hash

\* a previous_hash that goes back to the first entry of the log
first_hash(entries) == entries[1].snapshot_hash

\* entries[entries.len() - 2].snapshot_hash: the entry before HEAD
previous_hash(entries) == entries[Len(entries) - 1].snapshot_hash

\* the rest of revert once the target hash is known
RevertTo(hash, target_hash) ==
    IF load_by_hash(history, target_hash) = {} THEN Fails("revert", hash)
    ELSE \E found \in load_by_hash(history, target_hash) :
           LET target_snapshot == history[found]
               full_hash == compute_hash(target_snapshot)
           IN /\ current' = File(target_snapshot)
              /\ Journal(new_with_message("Commit", full_hash, 0, 0, 0,
                                          <<"Revert to", target_hash>>))
              /\ Ran("revert", hash, "ok", 0, FALSE)
              /\ UNCHANGED <<history, staged, remote>>

\* revert, from its first line to its last
revert_run(hash) ==
    /\ IF ~Exists(current) THEN Fails("revert", hash)
       ELSE IF ~parse_staged(staged) THEN ParseFails("revert", hash, FALSE)
       ELSE IF load_staged(staged) # <<>> THEN Fails("revert", hash)
       ELSE IF hash # None THEN RevertTo(hash, hash[2])
       ELSE IF ~parse_lines(journal) THEN ParseFails("revert", hash, FALSE)
       ELSE LET entries == read_all(journal) IN
            IF Len(entries) < 2 THEN Fails("revert", hash)
            ELSE RevertTo(hash, previous_hash(entries))

\* grit revert [hash]
revert(hash) ==
    /\ Ready
    /\ revert_run(hash)

\* an apply that takes a snapshot of either provider
apply_any_provider(snapshot) ==
    /\ Ready
    /\ IF ~Exists(current) THEN Fails("apply", <<snapshot>>)
       ELSE IF load_staged(staged) # <<>> THEN Fails("apply", <<snapshot>>)
       ELSE LET hash == compute_hash(snapshot) IN
            /\ current' = File(snapshot)
            /\ history' = save_by_hash(history, snapshot, hash)
            /\ Journal(new_with_message("Apply", hash, 0, 0, 0, "Applied from file"))
            /\ Ran("apply", <<snapshot>>, "ok", 0, FALSE)
            /\ UNCHANGED <<staged, remote>>

\* grit apply <file>
apply(snapshot) ==
    /\ Ready
    /\ IF ~Exists(current) THEN Fails("apply", <<snapshot>>)
       ELSE IF local.provider # snapshot.provider THEN Fails("apply", <<snapshot>>)
       ELSE IF ~parse_staged(staged) THEN ParseFails("apply", <<snapshot>>, FALSE)
       ELSE IF load_staged(staged) # <<>> THEN Fails("apply", <<snapshot>>)
       ELSE LET hash == compute_hash(snapshot) IN
            /\ current' = File(snapshot)
            /\ history' = save_by_hash(history, snapshot, hash)
            /\ Journal(new_with_message("Apply", hash, 0, 0, 0, "Applied from file"))
            /\ Ran("apply", <<snapshot>>, "ok", 0, FALSE)
            /\ UNCHANGED <<staged, remote>>

\* grit log
log ==
    /\ Ready
    /\ IF ~Exists(current) THEN Fails("log", <<>>)
       ELSE IF ~parse_lines(journal) THEN ParseFails("log", <<>>, FALSE)
       ELSE /\ Ran("log", <<>>, IF read_all(journal) = <<>> THEN "noop" ELSE "ok",
                   0, FALSE)
            /\ UNCHANGED <<current, history, staged, journal, remote, appended>>

\* main returns and the process exits: what is left is on disk and on the
\* provider
exit ==
    /\ last.op # "none"
    /\ last' = Idle
    /\ UNCHANGED <<current, history, staged, journal, remote, appended>>
    /\ UNCHANGED pureVars

Messages == {"msg"}
PushEnv == {"ok", "denied", "fetch", "late"}
MaxFailAt == 2 * MaxLen + 1

Next ==
    \/ \E provider \in ProviderKind, seen \in RemoteNow, fetchOk \in BOOLEAN :
          init_run(provider, seen, fetchOk)
    \/ \E id \in TrackIds, fetchOk \in BOOLEAN : add(id, fetchOk)
    \/ \E id \in TrackIds : remove(id)
    \/ \E id \in TrackIds, new_index \in 0..MaxLen : move_track(id, new_index)
    \/ reset
    \/ \E message \in Messages : commit(message)
    \/ \E seen \in RemoteNow, env \in PushEnv :
          \E failAt \in (IF env = "ok" THEN 0..MaxFailAt ELSE {0}) : push(seen, env, failAt)
    \/ \E seen \in RemoteNow, fetchOk \in BOOLEAN : pull(seen, fetchOk)
    \/ \E hash \in {Some(h) : h \in HashArgs} \cup {None} : revert(hash)
    \/ \E snapshot \in AllSnapshots : apply(snapshot)
    \/ exit

Spec == Init /\ [][Next]_vars

\* ------------------------------------------------- diff / apply_patch runs
PureLists == ListsOver(1..PureIds, PureLen)

PureInit ==
    /\ CmdIdle
    /\ remote = [tracks |-> <<>>, provider |-> "Spotify", snapshot_id |-> 0]
    /\ base \in PureLists
    /\ target \in PureLists
    /\ patch = <<>>
    /\ applied = [ok |-> TRUE, tracks |-> <<>>]
    /\ pc = "start"

ComputeDiff ==
    /\ pc = "start"
    /\ patch' = diff(base, target)
    /\ pc' = "diffed"
    /\ UNCHANGED <<base, target, applied>>
    /\ UNCHANGED cmdVars

ApplyDiff ==
    /\ pc = "diffed"
    /\ applied' = apply_patch(base, patch)
    /\ pc' = "applied"
    /\ UNCHANGED <<base, target, patch>>
    /\ UNCHANGED cmdVars

PureNext == ComputeDiff \/ ApplyDiff

SpecDiff == PureInit /\ [][PureNext]_vars

\* ------------------------------------------------------ push and its retry
\* the remote side of push on its own: fetch, diff against the local list
\* (target), apply on the provider; after a push that failed, push again
\* until there is nothing left to send
ApplyFailAt == 2 * PureLen

NoRun == [tracks |-> <<>>, calls |-> 0, halted |-> FALSE, log |-> <<>>, trace |-> <<>>]

ApplyInit ==
    /\ CmdIdle
    /\ remote \in [tracks : PureLists, provider : ProviderKind, snapshot_id : {0}]
    /\ target \in PureLists
    /\ base = <<>>
    /\ patch = <<>>
    /\ applied = NoRun
    /\ pc = "start"

\* provider.fetch and diff(&remote_snapshot, &local_snapshot); an empty patch
\* ends the push
PushFetch(from, to) ==
    /\ pc = from
    /\ base' = remote.tracks
    /\ patch' = diff(remote.tracks, target)
    /\ pc' = IF diff(remote.tracks, target) = <<>> THEN "synced" ELSE to
    /\ UNCHANGED <<target, applied, remote>>
    /\ UNCHANGED <<current, history, staged, journal, last, appended>>

\* provider.apply(playlist_id, &patch, &local_snapshot)
PushApply(from, failAt, done, failed) ==
    /\ pc = from
    /\ LET r == ProviderApply(remote.provider, base, patch, target, failAt) IN
         /\ applied' = r
         /\ remote' = [remote EXCEPT !.tracks = r.tracks]
         /\ pc' = IF r.halted THEN failed ELSE done
    /\ UNCHANGED <<base, target, patch>>
    /\ UNCHANGED <<current, history, staged, journal, last, appended>>

\* the first push; one of its requests may fail in transit
FirstFetch == PushFetch("start", "diffed")
FirstApply == \E failAt \in 0..ApplyFailAt : PushApply("diffed", failAt, "pushed", "failed")

\* push run again after a failure, and again while it finds changes to
\* send, no request failing in transit
RetryFetch == PushFetch("failed", "rediffed") \/ PushFetch("retried", "rediffed")
RetryApply == PushApply("rediffed", 0, "retried", "refailed")

ApplyNext == FirstFetch \/ FirstApply \/ RetryFetch \/ RetryApply

SpecApply == ApplyInit /\ [][ApplyNext]_vars

\* the caller goes on retrying
SpecRetry == SpecApply /\ WF_vars(ApplyNext)

\* ------------------------------------------------------ one Spotify reorder
MoveInit ==
    /\ CmdIdle
    /\ remote = [tracks |-> <<>>, provider |-> "Spotify", snapshot_id |-> 0]
    /\ base \in PureLists
    /\ target = <<>>
    /\ \E from \in 0..(Len(base) - 1), to \in 0..(Len(base) - 1) :
         /\ from # to
         /\ patch = <<Moved(base[from + 1], from, to)>>
    /\ applied = [ok |-> TRUE, tracks |-> <<>>]
    /\ pc = "start"

\* the PUT of one Moved change
Reorder ==
    /\ pc = "start"
    /\ applied' = SpotifyReorder(base, patch[1])
    /\ pc' = "applied"
    /\ UNCHANGED <<base, target, patch>>
    /\ UNCHANGED cmdVars

SpecMove == MoveInit /\ [][Reorder]_vars

\* ------------------------------------------------ hashing two snapshots
\* two snapshots of the playlist, their snapshot_hash fields drawn from
\* HashRevs values; the first is hashed twice, the second once
HashRevs == 2

HashInit ==
    /\ CmdIdle
    /\ remote = [tracks |-> <<>>, provider |-> "Spotify", snapshot_id |-> 0]
    /\ base \in [tracks : TrackLists, provider : ProviderKind,
                  snapshot_hash : 0..(HashRevs - 1)]
    /\ target \in [tracks : TrackLists, provider : ProviderKind,
                    snapshot_hash : 0..(HashRevs - 1)]
    /\ patch = <<>>
    /\ applied = [ok |-> TRUE, tracks |-> <<>>]
    /\ pc = "start"

\* compute_hash(&snapshot) on the first, again on the first, on the second
ComputeHashes ==
    /\ pc = "start"
    /\ patch' = <<compute_hash(base), compute_hash(base), compute_hash(target)>>
    /\ pc' = "hashed"
    /\ UNCHANGED <<base, target, applied>>
    /\ UNCHANGED cmdVars

SpecHash == HashInit /\ [][ComputeHashes]_vars

\* ------------------------------------------------- a crash during a write
\* std::fs::write(path, contents) is File::create(path), which creates the
\* file or truncates it to nothing, followed by write_all(contents); the
\* contents reach the file in WriteChunks pieces and the process may die
\* between any two of them
WriteChunks == 2

\* a file that holds the first `written` pieces of a write of `content`
Torn(content, written) == <<content, written>>

\* the file under a path during or after a write: the write in progress
\* (applied) knows how much of it is there
OnDisk(path, hash, whole) ==
    CASE path = "current" -> current
      [] path = "staged" -> staged
      [] path = "history" ->
           IF hash \notin DOMAIN history THEN NoFile
           ELSE IF whole THEN File(history[hash]) ELSE history[hash]

\* the file under a path becomes f (a whole or a torn file)
Put(path, hash, f, whole) ==
    /\ current' = IF path = "current" THEN f ELSE current
    /\ staged' = IF path = "staged" THEN f ELSE staged
    /\ history' = IF path = "history"
                  THEN save_by_hash(history, IF whole THEN Content(f) ELSE f, hash)
                  ELSE history

NoWrite == [path |-> "none", hash |-> <<>>, old |-> NoFile, new |-> NoFile, written |-> 0]

\* a tracked playlist as init leaves it, with or without a staged addition
CrashInit ==
    /\ \E s \in AllSnapshots :
         /\ current = File(s)
         /\ history = save_by_hash(<<>>, s, compute_hash(s))
         /\ journal = append(NoFile, JournalEntry("Init", compute_hash(s), 0, 0, 0))
         /\ staged \in {NoFile} \cup {File(<<Added(t, Len(s.tracks))>>) : t \in TrackIds}
         /\ remote = [tracks |-> s.tracks, provider |-> s.provider,
                      snapshot_id |-> s.snapshot_hash]
    /\ last = Idle
    /\ appended = <<>>
    /\ base = <<>>
    /\ target = NoFile
    /\ patch = <<>>
    /\ applied = NoWrite
    /\ pc = "start"

\* File::create(path): the file exists and is empty
fs_write(path, hash, content) ==
    /\ pc = "start"
    /\ applied' = [path |-> path, hash |-> hash, old |-> OnDisk(path, hash, TRUE),
                   new |-> File(content), written |-> 0]
    /\ Put(path, hash, Torn(content, 0), FALSE)
    /\ pc' = "writing"
    /\ UNCHANGED <<journal, remote, last, appended, base, target, patch>>

\* save_staged(&patch) of stage_change and of clear_staged
SaveStaged ==
    \E p \in {<<>>} \cup {Append(load_staged(staged), Added(t, Len(local.tracks))) :
                              t \in TrackIds} :
      Exists(current) /\ fs_write("staged", <<>>, p)

\* snapshot::save(&snapshot, &snapshot_path)
SaveCurrent ==
    \E s \in AllSnapshots :
      s.provider = local.provider /\ fs_write("current", <<>>, s)

\* snapshot::save_by_hash(&snapshot, &hash, ..)
SaveByHash ==
    \E s \in AllSnapshots :
      s.provider = local.provider /\ fs_write("history", compute_hash(s), s)

\* write_all: one more piece reaches the file
WriteAll ==
    /\ pc = "writing"
    /\ LET n == applied.written + 1
           whole == n = WriteChunks
       IN /\ applied' = [applied EXCEPT !.written = n]
          /\ Put(applied.path, applied.hash,
                 IF whole THEN applied.new ELSE Torn(Content(applied.new), n), whole)
          /\ pc' = IF whole THEN "written" ELSE "writing"
    /\ UNCHANGED <<journal, remote, last, appended, base, target, patch>>

\* the process dies during the write
Crash ==
    /\ pc = "writing"
    /\ pc' = "crashed"
    /\ UNCHANGED <<base, target, patch, applied>>
    /\ UNCHANGED cmdVars

\* fs::read_to_string(path) of the next run: target is what it reads
ReadBack ==
    /\ pc \in {"written", "crashed"}
    /\ target' = OnDisk(applied.path, applied.hash, pc = "written")
    /\ pc' = "read"
    /\ UNCHANGED <<base, patch, applied>>
    /\ UNCHANGED cmdVars

CrashNext == SaveStaged \/ SaveCurrent \/ SaveByHash \/ WriteAll \/ Crash \/ ReadBack

SpecCrash == CrashInit /\ [][CrashNext]_vars

\* ------------------------------------------- commands on a corrupt file
\* a tracked playlist as init leaves it whose staged.json holds part of a
\* write, or whose journal.log has a line that is no entry, or both
CorruptInit ==
    /\ \E s \in AllSnapshots :
         /\ current = File(s)
         /\ history = save_by_hash(<<>>, s, compute_hash(s))
         /\ \E lines \in {<<>>, <<Garbled>>} :
              journal = File(<<JournalEntry("Init", compute_hash(s), 0, 0, 0)>> \o lines)
         /\ staged \in {NoFile}
                \cup {File(<<Added(t, Len(s.tracks))>>) : t \in TrackIds}
                \cup {Torn(<<Added(t, Len(s.tracks))>>, n) :
                         t \in TrackIds, n \in 0..(WriteChunks - 1)}
         /\ remote = [tracks |-> s.tracks, provider |-> s.provider,
                      snapshot_id |-> s.snapshot_hash]
    /\ ~parse_staged(staged) \/ ~parse_lines(journal)
    /\ last = Idle
    /\ appended = <<>>
    /\ PureIdle

CorruptNext == Next \/ log

SpecCorrupt == CorruptInit /\ [][CorruptNext]_vars

\* --------------------------------------------- commit, one write at a time
\* a tracked playlist as init leaves it with one change staged by add or by
\* remove; commit runs step by step and the process may die (or a write may
\* fail) between any two steps, after which commit is run again
NoCommit == [snapshot |-> <<>>, hash |-> <<>>, patch |-> <<>>]

InterruptInit ==
    /\ \E s \in AllSnapshots :
         /\ current = File(s)
         /\ history = save_by_hash(<<>>, s, compute_hash(s))
         /\ journal = append(NoFile, JournalEntry("Init", compute_hash(s), 0, 0, 0))
         /\ staged \in {File(<<Added(t, Len(s.tracks))>>) : t \in TrackIds}
                \cup {File(<<Removed(s.tracks[i], Position(s.tracks, s.tracks[i]))>>) :
                         i \in 1..Len(s.tracks)}
         /\ remote = [tracks |-> s.tracks, provider |-> s.provider,
                      snapshot_id |-> s.snapshot_hash]
         /\ base = s.tracks
    /\ last = Idle
    /\ appended = <<>>
    /\ target = <<>>
    /\ patch = <<>>
    /\ applied = NoCommit
    /\ pc = "start"

\* load_staged, snapshot::load, apply_patch and compute_hash: all in memory
CommitApply ==
    /\ pc = "start"
    /\ LET p == load_staged(staged)
           res == apply_patch(local.tracks, p)
           snapshot_copy == [local EXCEPT !.tracks = res.tracks]
       IN /\ res.ok
          /\ applied' = [snapshot |-> snapshot_copy, hash |-> compute_hash(snapshot_copy),
                         patch |-> p]
    /\ pc' = "applied"
    /\ UNCHANGED <<base, target, patch>>
    /\ UNCHANGED cmdVars

\* snapshot::save_by_hash(&snapshot_copy, &hash, ..)
CommitSaveByHash ==
    /\ pc = "applied"
    /\ history' = save_by_hash(history, applied.snapshot, applied.hash)
    /\ pc' = "stored"
    /\ UNCHANGED <<current, staged, journal, remote, last, appended>>
    /\ UNCHANGED <<base, target, patch, applied>>

\* snapshot::save(&snapshot_copy, &snapshot_path)
CommitSave ==
    /\ pc = "stored"
    /\ current' = File(applied.snapshot)
    /\ pc' = "saved"
    /\ UNCHANGED <<history, staged, journal, remote, last, appended>>
    /\ UNCHANGED <<base, target, patch, applied>>

\* JournalEntry::append(&journal_path, &entry)
CommitJournal ==
    /\ pc = "saved"
    /\ Journal(new_with_message("Commit", applied.hash,
                   CountKind(applied.patch, "Added"), CountKind(applied.patch, "Removed"),
                   CountKind(applied.patch, "Moved"), "msg"))
    /\ pc' = "logged"
    /\ UNCHANGED <<current, history, staged, remote, last>>
    /\ UNCHANGED <<base, target, patch, applied>>

\* clear_staged(plr_dir, playlist_id)
CommitClear ==
    /\ pc = "logged"
    /\ staged' = clear_staged
    /\ pc' = "done"
    /\ UNCHANGED <<current, history, journal, remote, last, appended>>
    /\ UNCHANGED <<base, target, patch, applied>>

\* the process dies, or the next write fails and `?` returns
Interrupt ==
    /\ pc \in {"applied", "stored", "saved", "logged"}
    /\ pc' = "interrupted"
    /\ UNCHANGED <<base, target, patch, applied>>
    /\ UNCHANGED cmdVars

\* commit is run again
CommitAgain ==
    /\ pc = "interrupted"
    /\ commit("msg")

InterruptNext ==
    \/ CommitApply \/ CommitSaveByHash \/ CommitSave \/ CommitJournal \/ CommitClear
    \/ Interrupt \/ CommitAgain

SpecInterrupt == InterruptInit /\ [][InterruptNext]_vars

\* ------------------------------------------------- revert, twice in a row
\* a tracked playlist after init and one or two more commands that each
\* replaced current (apply, which stores the snapshot in history, or pull,
\* which does not); base: the length of the log, target: current, before
\* the first revert
RevertOps == {"Apply", "Pull"}

\* the entry a command that replaced `from` by `to` logged
EntryOf(op, from, to) ==
    IF op = "Apply"
    THEN new_with_message("Apply", compute_hash(to), 0, 0, 0, "Applied from file")
    ELSE LET p == diff(from.tracks, to.tracks) IN
         JournalEntry("Pull", compute_hash(to), CountKind(p, "Added"),
                      CountKind(p, "Removed"), CountKind(p, "Moved"))

RECURSIVE Played(_, _, _, _)
Played(snaps, ops, i, state) ==
    IF i > Len(snaps) THEN state
    ELSE Played(snaps, ops, i + 1,
                [history |-> IF ops[i - 1] = "Apply"
                             THEN save_by_hash(state.history, snaps[i], compute_hash(snaps[i]))
                             ELSE state.history,
                 journal |-> append(state.journal,
                                    EntryOf(ops[i - 1], snaps[i - 1], snaps[i]))])

RevertInit ==
    /\ \E n \in 2..MaxJournal, provider \in ProviderKind :
         \E snaps \in [1..n -> {s \in AllSnapshots : s.provider = provider}],
            ops \in [1..(n - 1) -> RevertOps] :
           LET first == [history |-> save_by_hash(<<>>, snaps[1], compute_hash(snaps[1])),
                         journal |-> append(NoFile, JournalEntry("Init",
                                               compute_hash(snaps[1]),
                                               Len(snaps[1].tracks), 0, 0))]
               state == Played(snaps, ops, 2, first)
           IN /\ \A i \in 2..n : compute_hash(snaps[i]) # compute_hash(snaps[i - 1])
              /\ current = File(snaps[n])
              /\ history = state.history
              /\ journal = state.journal
              /\ remote = [tracks |-> snaps[n].tracks, provider |-> provider,
                           snapshot_id |-> snaps[n].snapshot_hash]
              /\ target = snaps[n]
              /\ base = n
    /\ staged \in {NoFile, clear_staged}
    /\ last = Idle
    /\ appended = <<>>
    /\ patch = <<>>
    /\ applied = [ok |-> TRUE, tracks |-> <<>>]
    /\ pc = "cmd"

\* grit revert, without a hash, up to two times
RevertAgain ==
    /\ last.op = "none"
    /\ Len(read_all(journal)) < base + 2
    /\ revert_run(None)

RevertNext == RevertAgain \/ exit

SpecRevert == RevertInit /\ [][RevertNext]_vars

\* ------------------------------------------------------- playback queue
\* A Queue is [tracks, current, play_order, shuffle, repeat]; current and the
\* entries of play_order are 0-based as in the code
QueueLen == 3
RepeatMode == {"None", "All", "One"}

\* (0..n).collect()
Sequential(n) == [i \in 1..n |-> i - 1]

\* what play_order.shuffle(&mut rng) may leave: any arrangement of the entries
Shuffles(order) ==
    {s \in [1..Len(order) -> {order[i] : i \in 1..Len(order)}] :
        \A i, j \in 1..Len(order) : s[i] = s[j] => i = j}

Queue_new(tracks) ==
    [tracks |-> tracks, current |-> 0, play_order |-> Sequential(Len(tracks)),
     shuffle |-> FALSE, repeat |-> "None"]

current_track(q) ==
    IF q.current >= Len(q.play_order) THEN None
    ELSE IF q.play_order[q.current + 1] >= Len(q.tracks) THEN None
    ELSE Some(q.tracks[q.play_order[q.current + 1] + 1])

\* next, previous and jump_to give the queue they leave and the track returned
next(q) ==
    IF q.repeat = "One" THEN [queue |-> q, track |-> current_track(q)]
    ELSE IF q.current + 1 < Len(q.play_order)
    THEN [queue |-> [q EXCEPT !.current = @ + 1],
          track |-> current_track([q EXCEPT !.current = @ + 1])]
    ELSE IF q.repeat = "All"
    THEN [queue |-> [q EXCEPT !.current = 0],
          track |-> current_track([q EXCEPT !.current = 0])]
    ELSE [queue |-> q, track |-> None]

previous(q) ==
    LET moved == IF q.current > 0 THEN [q EXCEPT !.current = @ - 1]
                 ELSE IF q.repeat = "All"
                 THEN [q EXCEPT !.current = IF Len(q.play_order) = 0 THEN 0
                                            ELSE Len(q.play_order) - 1]
                 ELSE q
    IN  [queue |-> moved, track |-> current_track(moved)]

\* a toggle that leaves current where it was
toggle_shuffle_keep_index(q, order) ==
    [q EXCEPT !.shuffle = ~q.shuffle,
              !.play_order = IF ~q.shuffle THEN order ELSE Sequential(Len(q.tracks))]

\* order: what the shuffle left; defined for current < len(play_order), the
\* index panics otherwise
toggle_shuffle(q, order) ==
    LET current_track_idx == q.play_order[q.current + 1]
        play_order == IF ~q.shuffle THEN order ELSE Sequential(Len(q.tracks))
    IN  [q EXCEPT !.shuffle = ~q.shuffle,
                  !.play_order = play_order,
                  !.current = PositionOrFirst(play_order, current_track_idx)]

\* a jump that takes any index
jump_to_unchecked(q, index) ==
    [queue |-> [q EXCEPT !.current = index],
     track |-> current_track([q EXCEPT !.current = index])]

jump_to(q, index) ==
    IF index < Len(q.play_order)
    THEN [queue |-> [q EXCEPT !.current = index],
          track |-> current_track([q EXCEPT !.current = index])]
    ELSE [queue |-> q, track |-> None]

\* applied: the queue; patch: the track the last call returned; pc: the last
\* call; base, target: unused
QueueInit ==
    /\ CmdIdle
    /\ remote = [tracks |-> <<>>, provider |-> "Youtube", snapshot_id |-> 0]
    /\ \E n \in 1..QueueLen : applied = Queue_new([i \in 1..n |-> i])
    /\ base = <<>> /\ target = <<>>
    /\ patch = None
    /\ pc = "new"

QNext ==
    /\ applied' = next(applied).queue
    /\ patch' = next(applied).track
    /\ pc' = "next"
    /\ UNCHANGED <<base, target>>
    /\ UNCHANGED cmdVars

QPrevious ==
    /\ applied' = previous(applied).queue
    /\ patch' = previous(applied).track
    /\ pc' = "previous"
    /\ UNCHANGED <<base, target>>
    /\ UNCHANGED cmdVars

QToggleShuffle ==
    /\ \E order \in Shuffles(applied.play_order) :
         applied' = toggle_shuffle(applied, order)
    /\ patch' = None
    /\ pc' = "toggle_shuffle"
    /\ UNCHANGED <<base, target>>
    /\ UNCHANGED cmdVars

QJumpTo ==
    /\ \E index \in 0..QueueLen :
         /\ applied' = jump_to(applied, index).queue
         /\ patch' = jump_to(applied, index).track
    /\ pc' = "jump_to"
    /\ UNCHANGED <<base, target>>
    /\ UNCHANGED cmdVars

QueueNext == QNext \/ QPrevious \/ QToggleShuffle \/ QJumpTo

SpecQueue == QueueInit /\ [][QueueNext]_vars

\* --------------------------------------------------------- mpv player loop
\* play_mpv: applied is [queue, shuffle], the loop's queue and the flag the
\* TUI shows (app.shuffle); patch: the track last handed to the player; pc:
\* "loop", or "panicked" once an index went out of range; base, target: unused
PlayerInit ==
    /\ CmdIdle
    /\ remote = [tracks |-> <<>>, provider |-> "Youtube", snapshot_id |-> 0]
    /\ \E n \in 1..QueueLen, shuffle \in BOOLEAN :
         \E order \in Shuffles(Sequential(n)) :
           /\ applied = [queue |-> IF shuffle
                                   THEN toggle_shuffle(Queue_new([i \in 1..n |-> i]), order)
                                   ELSE Queue_new([i \in 1..n |-> i]),
                         shuffle |-> shuffle]
           /\ patch = current_track(applied.queue)
    /\ base = <<>> /\ target = <<>>
    /\ pc = "loop"

\* the snapshot file changed on disk: the queue is built anew from its tracks
Reload ==
    /\ pc = "loop"
    /\ \E n \in 0..QueueLen :
         applied' = [applied EXCEPT !.queue = Queue_new([i \in 1..n |-> i])]
    /\ UNCHANGED <<base, target, patch, pc>>
    /\ UNCHANGED cmdVars

\* 'n': app.repeat_mode is None unless 'r' was pressed
KeyNext ==
    /\ pc = "loop"
    /\ applied' = [applied EXCEPT !.queue = next(applied.queue).queue]
    /\ patch' = IF next(applied.queue).track = None THEN patch
                ELSE next(applied.queue).track
    /\ UNCHANGED <<base, target, pc>>
    /\ UNCHANGED cmdVars

\* 's'
KeyShuffle ==
    /\ pc = "loop"
    /\ IF applied.queue.current >= Len(applied.queue.play_order)
       THEN pc' = "panicked" /\ UNCHANGED applied
       ELSE /\ \E order \in Shuffles(applied.queue.play_order) :
                 applied' = [queue |-> toggle_shuffle(applied.queue, order),
                             shuffle |-> ~applied.shuffle]
            /\ UNCHANGED pc
    /\ UNCHANGED <<base, target, patch>>
    /\ UNCHANGED cmdVars

PlayerNext == Reload \/ KeyNext \/ KeyShuffle

SpecPlayer == PlayerInit /\ [][PlayerNext]_vars

\* ------------------------------------------------------------ get_token
\* NumTasks get_token futures polled on one provider instance (the Spotify
\* and the YouTube provider run the same steps). applied: the
\* provider (token: what self.token caches, "expired" or "valid" at first,
\* "fresh" once refreshed; holder: the task that holds the Mutex, 0 when
\* free; refreshes: the refresh requests sent; failures: those that failed);
\* base[t]: the current_token clone of task t; target[t]: what its call
\* returned; pc[t]: where it is
NumTasks == 2

TokenInit ==
    /\ CmdIdle
    /\ \E kind \in ProviderKind :
         remote = [tracks |-> <<>>, provider |-> kind, snapshot_id |-> 0]
    /\ \E cached \in {"expired", "valid"} :
         applied = [token |-> cached, holder |-> 0, refreshes |-> 0, failures |-> 0]
    /\ base = [t \in (1..NumTasks) |-> "none"]
    /\ target = [t \in (1..NumTasks) |-> "none"]
    /\ patch = <<>>
    /\ pc = [t \in (1..NumTasks) |-> "start"]

\* let token_guard = self.token.lock().await
Lock(t) ==
    /\ pc[t] = "start" /\ applied.holder = 0
    /\ applied' = [applied EXCEPT !.holder = t]
    /\ pc' = [pc EXCEPT ![t] = "locked"]
    /\ UNCHANGED <<base, target, patch>>
    /\ UNCHANGED cmdVars

\* token_guard.as_ref()?.clone(); drop(token_guard)
ReadToken(t) ==
    /\ pc[t] = "locked"
    /\ base' = [base EXCEPT ![t] = applied.token]
    /\ applied' = [applied EXCEPT !.holder = 0]
    /\ pc' = [pc EXCEPT ![t] = "read"]
    /\ UNCHANGED <<target, patch>>
    /\ UNCHANGED cmdVars

\* if Self::is_token_expired(&current_token) .. else Ok(access_token)
CheckToken(t) ==
    /\ pc[t] = "read"
    /\ IF base[t] = "expired"
       THEN pc' = [pc EXCEPT ![t] = "refresh"] /\ UNCHANGED target
       ELSE pc' = [pc EXCEPT ![t] = "done"] /\ target' = [target EXCEPT ![t] = base[t]]
    /\ UNCHANGED <<base, patch, applied>>
    /\ UNCHANGED cmdVars

\* self.refresh_token(&current_token).await?
RefreshToken(t, ok) ==
    /\ pc[t] = "refresh"
    /\ applied' = [applied EXCEPT !.refreshes = @ + 1,
                                  !.failures = IF ok THEN @ ELSE @ + 1]
    /\ pc' = [pc EXCEPT ![t] = IF ok THEN "store" ELSE "failed"]
    /\ UNCHANGED <<base, target, patch>>
    /\ UNCHANGED cmdVars

\* *self.token.lock().await = Some(new_token.clone()); Ok(access_token)
StoreToken(t) ==
    /\ pc[t] = "store" /\ applied.holder = 0
    /\ applied' = [applied EXCEPT !.token = "fresh"]
    /\ target' = [target EXCEPT ![t] = "fresh"]
    /\ pc' = [pc EXCEPT ![t] = "done"]
    /\ UNCHANGED <<base, patch>>
    /\ UNCHANGED cmdVars

TokenNext ==
    \E t \in (1..NumTasks) :
      \/ Lock(t) \/ ReadToken(t) \/ CheckToken(t)
      \/ \E ok \in BOOLEAN : RefreshToken(t, ok)
      \/ StoreToken(t)

SpecToken == TokenInit /\ [][TokenNext]_vars

\* ------------------------------------- commit of a removal and an addition
\* a track list, and staged for it, in either order, the removal of the track
\* at one of its positions and the addition of the same track at an index
StagedLen == 4

StagedInit ==
    /\ CmdIdle
    /\ remote = [tracks |-> <<>>, provider |-> "Spotify", snapshot_id |-> 0]
    /\ base \in ListsOver(1..PureIds, StagedLen)
    /\ target = <<>>
    /\ \E at \in 0..(Len(base) - 1), index \in 0..StagedLen :
         patch \in {<<Removed(base[at + 1], at), Added(base[at + 1], index)>>,
                    <<Added(base[at + 1], index), Removed(base[at + 1], at)>>}
    /\ applied = [ok |-> TRUE, tracks |-> <<>>]
    /\ pc = "start"

\* apply_patch(&mut snapshot_copy, &patch) of commit
CommitStaged ==
    /\ pc = "start"
    /\ applied' = apply_patch(base, patch)
    /\ pc' = "applied"
    /\ UNCHANGED <<base, target, patch>>
    /\ UNCHANGED cmdVars

SpecStaged == StagedInit /\ [][CommitStaged]_vars

\* ------------------------------------------------ properties: diff/patch
\* C1: applying diff(A, B) to A yields B's track list
RoundTrip == pc = "applied" => (applied.ok /\ applied.tracks = target)

\* C2: diff(A, A) is the empty patch, and applying the empty patch to A
\* yields A unchanged
Idempotence ==
    /\ (pc # "start" /\ base = target) => patch = <<>>
    /\ (pc = "applied" /\ patch = <<>>) => (applied.ok /\ applied.tracks = base)

\* a list with a duplicated track was diffed against itself and the result
\* applied
IdempotenceReached ==
    /\ pc = "applied"
    /\ base = target
    /\ Len(base) = PureLen
    /\ base[1] = base[PureLen]
    /\ base[1] # base[2]

\* ---------------------------------------------------- properties: commands
IsPrefix(s, t) == Len(s) <= Len(t) /\ SubSeq(t, 1, Len(s)) = s

\* the step is a run of op
Runs(op) == last.op = "none" /\ last'.op = op

\* the step is a run of op that succeeded without short-circuiting
Succeeds(op) == Runs(op) /\ last'.outcome = "ok"

Logged == {"init", "commit", "push", "pull", "revert", "apply"}

\* C3: a commit with current snapshot S and non-empty staged patch P leaves
\* current = apply_patch(S, P), stored in history under its hash, exactly one
\* Commit entry appended to the journal with that hash, the message and the
\* added/removed/moved counts of P, and staging empty
CommitEffect ==
    [][Succeeds("commit") =>
         LET S == Content(current)
             P == Content(staged)
             new == [S EXCEPT !.tracks = apply_patch(S.tracks, P).tracks]
             h == compute_hash(new)
         IN /\ P # <<>>
            /\ current' = File(new)
            /\ h \in DOMAIN history' /\ history'[h] = new
            /\ read_all(journal') =
                 Append(read_all(journal),
                        [operation |-> "Commit", snapshot_hash |-> h,
                         added |-> CountKind(P, "Added"),
                         removed |-> CountKind(P, "Removed"),
                         moved |-> CountKind(P, "Moved"),
                         message |-> last'.args[1]])
            /\ load_staged(staged') = <<>>]_vars

\* a commit of a two-change patch has run
CommitReached ==
    /\ last.op = "commit" /\ last.outcome = "ok"
    /\ LET e == read_all(journal)[Len(read_all(journal))] IN
         /\ e.operation = "Commit"
         /\ e.added + e.removed + e.moved = 2
         /\ compute_hash(Content(current)) = e.snapshot_hash
         /\ e.snapshot_hash \in DOMAIN history

\* C4: every successful init, commit, push, pull, revert and apply that does
\* not short-circuit appends exactly one journal entry; a push whose
\* diff(remote, current) is empty, a pull whose remote hash equals the
\* current hash, and a commit or reset with empty staging append none and
\* change neither current, history nor staging
OneEntryPerOperation ==
    [][/\ (\E op \in Logged : Succeeds(op)) =>
            /\ Len(read_all(journal')) = Len(read_all(journal)) + 1
            /\ IsPrefix(read_all(journal), read_all(journal'))
       /\ (Runs("push") /\ last'.outcome # "err"
             /\ diff(Fetch(last'.args[3]).tracks, Content(current).tracks) = <<>>) =>
            (last'.outcome = "noop" /\ UNCHANGED <<current, history, staged, journal>>)
       /\ (Runs("pull") /\ last'.outcome # "err"
             /\ compute_hash(Fetch(last'.args[1])) = compute_hash(Content(current))) =>
            (last'.outcome = "noop" /\ UNCHANGED <<current, history, staged, journal>>)
       /\ ((Runs("commit") \/ Runs("reset")) /\ current # NoFile
             /\ (staged = NoFile \/ Content(staged) = <<>>)) =>
            (last'.outcome = "noop" /\ UNCHANGED <<current, history, staged, journal>>)
       /\ last'.outcome = "noop" => UNCHANGED <<current, history, staged, journal>>
      ]_vars

\* a push that changed the remote has logged its entry
OneEntryReached ==
    /\ last.op = "push" /\ last.outcome = "ok" /\ last.calls > 0
    /\ Len(read_all(journal)) = 2
    /\ read_all(journal)[2].operation = "Push"

\* C5: every hash recorded in a journal entry, and the hash of the current
\* snapshot, is the key of a snapshot in history
HashesInHistory ==
    /\ \A i \in 1..Len(read_all(journal)) :
         read_all(journal)[i].snapshot_hash \in DOMAIN history
    /\ current # NoFile => compute_hash(Content(current)) \in DOMAIN history

\* C6: the journal is append-only: reading it back gives the entries
\* appended, in call order (none for a missing file), and the journal before
\* any operation is a prefix of the journal after it
JournalAppendOnly ==
    /\ [](read_all(journal) = appended)
    /\ [](journal = NoFile => read_all(journal) = <<>>)
    /\ [][IsPrefix(read_all(journal), read_all(journal'))]_vars

\* three entries of three different commands were appended and read back
JournalReached ==
    /\ Len(appended) = 3
    /\ read_all(journal) = appended
    /\ appended[1].operation = "Init"
    /\ appended[2].operation # appended[3].operation

\* C7: a revert without a hash, the journal holding n >= 2 entries, resolves
\* to the hash of entry n-1 (the entry before HEAD), sets current to that
\* snapshot of history and appends exactly one Commit entry with that hash
RevertPrevious ==
    [][(Succeeds("revert") /\ last'.args[1] = "None") =>
         LET entries == read_all(journal)
             n == Len(entries)
         IN /\ n >= 2
            /\ entries[n - 1].snapshot_hash \in DOMAIN history
            /\ current' = File(history[entries[n - 1].snapshot_hash])
            /\ Len(read_all(journal')) = n + 1
            /\ IsPrefix(entries, read_all(journal'))
            /\ read_all(journal')[n + 1].operation = "Commit"
            /\ read_all(journal')[n + 1].snapshot_hash = entries[n - 1].snapshot_hash
      ]_vars

\* a revert without a hash went back from HEAD to a different snapshot
RevertPreviousReached ==
    /\ last.op = "revert" /\ last.outcome = "ok" /\ last.args[1] = "None"
    /\ LET entries == read_all(journal) IN
         /\ Len(entries) = 3
         /\ entries[1].snapshot_hash # entries[2].snapshot_hash
         /\ entries[3].snapshot_hash = entries[1].snapshot_hash
         /\ entries[3].operation = "Commit"
         /\ compute_hash(Content(current)) = entries[1].snapshot_hash

\* C8: a revert that fails, for fewer than two journal entries with no hash
\* given or for a hash that is not in history, mutates nothing
FailedRevert ==
    [][(/\ Runs("revert")
        /\ \/ last'.args[1] = "None" /\ Len(read_all(journal)) < 2
           \/ /\ last'.args[1] = "Some"
              /\ \A x \in DOMAIN history : ~starts_with(x, last'.args[2])) =>
         /\ last'.outcome = "err"
         /\ last'.calls = 0
         /\ UNCHANGED <<current, history, staged, journal, remote>>
      ]_vars

\* a tracked playlist with one journal entry and nothing staged was asked to
\* revert without a hash
FailedRevertReached ==
    /\ last.op = "revert" /\ last.outcome = "err"
    /\ current # NoFile
    /\ load_staged(staged) = <<>>
    /\ last.args[1] = "None"
    /\ Len(read_all(journal)) = 1

\* C9: with non-empty staging, push, pull, revert and apply fail, issue no
\* remote mutation call and leave the disk state unchanged
StagedGuard ==
    [][((Runs("push") \/ Runs("pull") \/ Runs("revert") \/ Runs("apply"))
          /\ staged # NoFile /\ Content(staged) # <<>>) =>
         /\ last'.outcome = "err"
         /\ last'.calls = 0
         /\ UNCHANGED <<current, history, staged, journal, remote>>
      ]_vars

\* a push was refused on a tracked playlist with a change staged while the
\* remote differed from current
StagedGuardReached ==
    /\ last.op = "push" /\ last.outcome = "err" /\ ~last.fetched
    /\ current # NoFile
    /\ staged # NoFile /\ Content(staged) # <<>>
    /\ remote.tracks # Content(current).tracks

\* C10: init succeeds only on an untracked playlist, and on a tracked one
\* fails without fetching and changes nothing; add, remove, move, commit,
\* reset, push, pull, revert and apply on an untracked playlist fail without
\* creating any state
TrackedGuard ==
    [][/\ Succeeds("init") => current = NoFile
       /\ (Runs("init") /\ current # NoFile) =>
            /\ last'.outcome = "err"
            /\ ~last'.fetched /\ last'.calls = 0
            /\ UNCHANGED <<current, history, staged, journal, remote>>
       /\ ((\E op \in {"add", "remove", "move", "commit", "reset",
                       "push", "pull", "revert", "apply"} : Runs(op))
             /\ current = NoFile) =>
            /\ last'.outcome = "err"
            /\ ~last'.fetched /\ last'.calls = 0
            /\ UNCHANGED <<current, history, staged, journal, remote>>
            /\ current' = NoFile /\ history' = <<>>
            /\ staged' = NoFile /\ journal' = NoFile
      ]_vars

\* init was refused on a tracked playlist
TrackedGuardReached ==
    /\ last.op = "init" /\ last.outcome = "err" /\ ~last.fetched
    /\ current # NoFile
    /\ Len(read_all(journal)) >= 1

\* the changes staged.json holds
StagedNow == IF staged = NoFile THEN <<>> ELSE Content(staged)

\* the ids of the tracks of current
CurrentIds == {Content(current).tracks[i] : i \in 1..Len(Content(current).tracks)}

\* C11: each successful add, remove or move appends exactly one TrackChange
\* to the end of the staged patch, keeps every change staged before in its
\* order, and leaves current, history and the journal unchanged
StageAppends ==
    [][\A op \in {"add", "remove", "move"} :
         Succeeds(op) =>
           /\ staged' # NoFile
           /\ Len(Content(staged')) = Len(StagedNow) + 1
           /\ IsPrefix(StagedNow, Content(staged'))
           /\ LET c == Content(staged')[Len(StagedNow) + 1] IN
                /\ c.track = last'.args[1]
                /\ c.kind = CASE op = "add" -> "Added"
                              [] op = "remove" -> "Removed"
                              [] op = "move" -> "Moved"
           /\ UNCHANGED <<current, history, journal>>
      ]_vars

\* a move was staged after a removal of the same track, and both are kept
StageAppendsReached ==
    /\ last.op = "move" /\ last.outcome = "ok"
    /\ Len(StagedNow) = 2
    /\ StagedNow[1].kind = "Removed"
    /\ StagedNow[2].kind = "Moved"
    /\ StagedNow[1].track = StagedNow[2].track

\* C12: remove or move of a track id absent from current fails, and so does
\* a move to an index that is out of bounds or is the track's position; the
\* staged patch is left unchanged
StageValidation ==
    [][LET tracks == Content(current).tracks IN
       /\ (Runs("remove") /\ current # NoFile /\ last'.args[1] \notin CurrentIds) =>
            (last'.outcome = "err" /\ UNCHANGED <<current, history, staged, journal>>)
       /\ (Runs("move") /\ current # NoFile
             /\ \/ last'.args[1] \notin CurrentIds
                \/ last'.args[2] >= Len(tracks)
                \/ /\ tracks[last'.args[2] + 1] = last'.args[1]
                   /\ \A m \in 1..last'.args[2] : tracks[m] # last'.args[1]) =>
            (last'.outcome = "err" /\ UNCHANGED <<current, history, staged, journal>>)
      ]_vars

\* a move to an index past the end of the list was refused with a change
\* already staged
StageValidationReached ==
    /\ last.op = "move" /\ last.outcome = "err"
    /\ current # NoFile
    /\ last.args[1] \in CurrentIds
    /\ last.args[2] >= Len(Content(current).tracks)
    /\ Len(StagedNow) = 1

\* C13: load on a playlist with no staged.json returns the empty patch, and
\* right after a reset or a successful commit load returns the empty patch
StagingCleared ==
    /\ [](staged = NoFile => load_staged(staged) = <<>>)
    /\ [][(Succeeds("reset") \/ Succeeds("commit") \/ Succeeds("init")) =>
            load_staged(staged') = <<>>]_vars

\* a reset has emptied a staging file
StagingClearedReached ==
    /\ last.op = "reset" /\ last.outcome = "ok"
    /\ staged # NoFile
    /\ load_staged(staged) = <<>>

\* C14: a pull that finds a remote hash different from current's leaves
\* current equal to the fetched snapshot and appends one Pull entry with the
\* remote hash and the counts of diff(previous current, remote)
PullReplaces ==
    [][(Runs("pull") /\ last'.outcome # "err"
          /\ compute_hash(Fetch(last'.args[1])) # compute_hash(Content(current))) =>
         LET fetched == Fetch(last'.args[1])
             p == diff(Content(current).tracks, fetched.tracks)
         IN /\ last'.outcome = "ok"
            /\ current' = File(fetched)
            /\ read_all(journal') =
                 Append(read_all(journal),
                        [operation |-> "Pull", snapshot_hash |-> compute_hash(fetched),
                         added |-> CountKind(p, "Added"),
                         removed |-> CountKind(p, "Removed"),
                         moved |-> CountKind(p, "Moved"),
                         message |-> "None"])
      ]_vars

\* a pull replaced current with a remote list that a patch would not have
\* produced: a removal, an addition and a move
PullReplacesReached ==
    /\ last.op = "pull" /\ last.outcome = "ok"
    /\ Content(current) = Fetch(last.args[1])
    /\ LET e == read_all(journal)[Len(read_all(journal))] IN
         /\ e.operation = "Pull"
         /\ e.added >= 1
         /\ e.moved >= 1

\* C15: after a push that returns success, the remote track sequence equals
\* the local one (no edit by anyone else falls between the fetch and the
\* calls of a push), on the Spotify and the YouTube path, duplicates included
PushSyncs ==
    [][Succeeds("push") => remote'.tracks = Content(current).tracks]_vars

\* C17: when a remote call fails during push, no later mutation call of that
\* push is issued, no Push entry is appended, and current, history and
\* staging are unchanged
PushAborts ==
    [][(Runs("push") /\ Len(last'.args) = 3) =>
         LET failAt == last'.args[2]
             p == diff(Fetch(last'.args[3]).tracks, Content(current).tracks)
         IN /\ failAt >= 1 => last'.calls < failAt
            /\ (Content(current).provider = "Spotify" /\ failAt \in 1..Len(p)) =>
                 last'.outcome = "err"
            /\ last'.outcome = "err" =>
                 UNCHANGED <<current, history, staged, journal>>
      ]_vars

\* the second mutation call of a push failed: one call went through, the
\* remote is left between the two lists and nothing was logged
PushAbortsReached ==
    /\ last.op = "push" /\ last.outcome = "err"
    /\ last.calls = 1
    /\ last.args[2] = 2
    /\ remote.tracks # Content(current).tracks
    /\ remote.tracks # last.args[3].tracks
    /\ read_all(journal)[Len(read_all(journal))].operation # "Push"

\* C18: a push whose permission check answers no fails before any remote
\* mutation call and appends no journal entry; the permission check comes
\* before the fetch and the fetch before the first mutation call
PermissionFirst ==
    [][(Runs("push") /\ current # NoFile /\ StagedNow = <<>>) =>
         /\ last'.args[1] = "denied" =>
              /\ last'.outcome = "err"
              /\ ~last'.fetched /\ last'.calls = 0
              /\ UNCHANGED <<current, history, staged, journal, remote>>
         /\ last'.args[1] = "fetch" =>
              /\ last'.outcome = "err"
              /\ last'.calls = 0
              /\ UNCHANGED <<current, history, staged, journal, remote>>
         /\ (last'.calls > 0 \/ last'.outcome = "ok") =>
              (last'.fetched /\ last'.args[1] \notin {"denied", "fetch"})
      ]_vars

\* a push that had changes to send was refused for lack of write access
PermissionFirstReached ==
    /\ last.op = "push" /\ last.outcome = "err"
    /\ last.args[1] = "denied"
    /\ current # NoFile /\ StagedNow = <<>>
    /\ remote.tracks # Content(current).tracks
    /\ ~last.fetched /\ last.calls = 0

\* the phase of a mutation call
Phase(kind) == CASE kind = "Removed" -> 1 [] kind = "Added" -> 2 [] kind = "Moved" -> 3

\* C19: remote application issues one call per change, in three phases:
\* every removal call before every insertion call, every insertion call
\* before every move call, as many mutation calls as the patch has changes
ThreePhases ==
    pc = "pushed" =>
      /\ \A i \in 1..Len(applied.log) : \A j \in i..Len(applied.log) :
           Phase(applied.log[i]) <= Phase(applied.log[j])
      /\ Len(applied.log) = Len(patch)
      /\ \A k \in {"Removed", "Added", "Moved"} :
           Len(SelectSeq(applied.log, LAMBDA x : x = k)) = CountKind(patch, k)

\* C16: after a push that failed having made some of its remote calls,
\* pushing again, no request failing, ends with the remote track sequence
\* equal to the local one
RetryConverges ==
    (pc = "failed" /\ applied.calls >= 1)
      ~> (pc = "refailed" \/ (pc = "synced" /\ remote.tracks = target))

\* C20: relocating the one element at range_start = from with insert_before
\* = to + 1 when from < to and = to when from > to leaves it at index to
\* and the other elements in their order
MoveLands ==
    pc = "applied" =>
      LET c == patch[1] IN
      /\ applied.ok
      /\ Len(applied.tracks) = Len(base)
      /\ applied.tracks[c.to + 1] = base[c.from + 1]
      /\ RemoveAt(applied.tracks, c.to) = RemoveAt(base, c.from)

\* a forward move across two elements of a list of three distinct tracks
MoveLandsReached ==
    /\ pc = "applied"
    /\ Len(base) = 3
    /\ patch[1].from = 0 /\ patch[1].to = 2
    /\ base[1] # base[2] /\ base[2] # base[3] /\ base[1] # base[3]
    /\ applied.tracks = <<base[2], base[3], base[1]>>

\* C21: within one remote application no read of the remote playlist is
\* answered between the first and the last mutation call of a phase: the
\* calls of a phase work from the state fetched before the phase began
SingleBaseline ==
    pc \in {"pushed", "failed"} =>
      \A i \in 1..Len(applied.trace) : \A k \in i..Len(applied.trace) :
        (applied.trace[i] # "Fetch" /\ applied.trace[k] = applied.trace[i])
          => \A j \in i..k : applied.trace[j] # "Fetch"

\* C22: a patch returned by diff is grouped: no Removed change after an
\* Added or Moved change, no Added change after a Moved change
Grouped ==
    pc # "start" =>
      \A i \in 1..Len(patch) : \A j \in i..Len(patch) :
        Phase(patch[i].kind) <= Phase(patch[j].kind)

\* a patch with a change of each kind
GroupedReached ==
    /\ pc = "diffed"
    /\ \A k \in {"Removed", "Added", "Moved"} : CountKind(patch, k) >= 1

\* occurrences of x among the first n elements of s
Occurrences(s, x, n) == Cardinality({i \in 1..n : s[i] = x})

\* the 0-based positions of the occurrences of x in s after its first n
Beyond(s, x, n) == {i - 1 : i \in {k \in 1..Len(s) : s[k] = x /\ Occurrences(s, x, k) > n}}

\* C23: for an identity x occurring b times in base and t times in target
\* the patch has exactly max(0, t - b) Added changes and max(0, b - t)
\* Removed changes for x, and they are for the last occurrences of x in
\* target and in base
DuplicatePairing ==
    pc # "start" =>
      \A x \in 1..PureIds :
        LET b == Occurrences(base, x, Len(base))
            t == Occurrences(target, x, Len(target))
            adds == SelectSeq(patch, LAMBDA c : c.kind = "Added" /\ c.track = x)
            rems == SelectSeq(patch, LAMBDA c : c.kind = "Removed" /\ c.track = x)
        IN /\ Len(adds) = IF t > b THEN t - b ELSE 0
           /\ Len(rems) = IF b > t THEN b - t ELSE 0
           /\ {adds[i].index : i \in 1..Len(adds)} = Beyond(target, x, b)
           /\ {rems[i].index : i \in 1..Len(rems)} = Beyond(base, x, t)

\* one identity repeated in base and kept once, another repeated in target
\* and present once in base
DuplicatePairingReached ==
    /\ pc = "diffed"
    /\ \E x \in 1..PureIds : /\ Occurrences(base, x, Len(base)) = 2
                              /\ Occurrences(target, x, Len(target)) = 1
    /\ \E y \in 1..PureIds : /\ Occurrences(base, y, Len(base)) = 1
                              /\ Occurrences(target, y, Len(target)) = 2

\* C24: diff never emits a Moved change with from = to: a matched item at
\* the same position in base and target contributes no change
NoNullMove ==
    pc # "start" =>
      /\ \A i \in 1..Len(patch) :
           patch[i].kind = "Moved" => patch[i].from # patch[i].to
      /\ \A p \in 1..PureLen :
           (/\ p <= Len(base) /\ p <= Len(target)
            /\ base[p] = target[p]
            /\ Occurrences(base, base[p], p) = Occurrences(target, base[p], p))
             => \A i \in 1..Len(patch) :
                  /\ patch[i].kind = "Moved" => patch[i].to # p - 1
                  /\ patch[i].kind # "Moved" =>
                       (patch[i].track # base[p] \/ patch[i].index # p - 1)

\* a patch that moves two items around one that stays where it was
NoNullMoveReached ==
    /\ pc = "diffed"
    /\ Len(base) = 3 /\ Len(target) = 3
    /\ base[1] = target[1] /\ base[2] = target[3] /\ base[3] = target[2]
    /\ CountKind(patch, "Moved") = 2

\* t is s with the distinct tracks at 0-based positions i and i + 1 swapped
SwappedAt(s, t, i) ==
    /\ Len(s) = Len(t) /\ i + 2 <= Len(s)
    /\ s[i + 1] # s[i + 2]
    /\ t = [k \in 1..Len(s) |-> IF k = i + 1 THEN s[i + 2]
                                ELSE IF k = i + 2 THEN s[i + 1] ELSE s[k]]

\* C25: when remote and local hold the same tracks and differ by one swap
\* of two adjacent tracks, diff(remote, local) is exactly one Moved change
\* (for remote [A, C, B] and local [A, B, C]: Moved{B, from 2, to 1}), push
\* issues exactly one remote call, a move, and the counts entered in the
\* journal are +0/-0/~1
AdjacentSwap ==
    \A i \in 0..(PureLen - 2) :
      (pc \in {"diffed", "pushed"} /\ SwappedAt(base, target, i)) =>
        /\ patch = <<Moved(base[i + 2], i + 1, i)>>
        /\ CountKind(patch, "Added") = 0 /\ CountKind(patch, "Removed") = 0
        /\ CountKind(patch, "Moved") = 1
        /\ pc = "pushed" => (applied.calls = 1 /\ applied.log = <<"Moved">>)

AtomicWrites ==
    pc = "read" => target \in {applied.old, applied.new}

\* C28: lookup in history by hash prefix is unambiguous: a revert given a
\* prefix that more than one stored hash starts with fails and changes
\* nothing, instead of taking one of the matching snapshots
AmbiguousPrefix ==
    [][(/\ Runs("revert")
        /\ last'.args[1] = "Some"
        /\ Cardinality({x \in DOMAIN history : starts_with(x, last'.args[2])}) > 1) =>
         /\ last'.outcome = "err"
         /\ UNCHANGED <<current, history, staged, journal, remote>>
      ]_vars

\* C29: the content hash does not depend on the snapshot's own hash field:
\* two snapshots that agree on everything but the stored hash field get
\* the same compute_hash result, and compute_hash called twice on one
\* snapshot returns the same value
HashIgnoresField ==
    pc = "hashed" =>
      /\ patch[1] = patch[2]
      /\ (base.tracks = target.tracks /\ base.provider = target.provider)
           => patch[1] = patch[3]

\* C30: apply(file) on a tracked playlist requires a matching provider
\* kind: a snapshot of another provider makes it fail with current,
\* history, journal and staging unchanged; otherwise, nothing being staged,
\* it sets current to the supplied snapshot, stores it in history under its
\* hash and appends exactly one Apply entry with that hash
ApplyEffect ==
    [][(Runs("apply") /\ Exists(current)) =>
         LET snapshot == last'.args[1]
             hash == compute_hash(snapshot)
             before == read_all(journal)
             after == read_all(journal')
         IN IF snapshot.provider # local.provider
            THEN /\ last'.outcome = "err"
                 /\ UNCHANGED <<current, history, staged, journal, remote>>
            ELSE load_staged(staged) = <<>> =>
                   /\ last'.outcome = "ok"
                   /\ current' = File(snapshot)
                   /\ DOMAIN history' = DOMAIN history \cup {hash}
                   /\ history'[hash] = snapshot
                   /\ \A x \in DOMAIN history \ {hash} : history'[x] = history[x]
                   /\ Len(after) = Len(before) + 1
                   /\ IsPrefix(before, after)
                   /\ after[Len(after)].operation = "Apply"
                   /\ after[Len(after)].snapshot_hash = hash
                   /\ UNCHANGED <<staged, remote>>
      ]_vars

\* a snapshot with other tracks than current, of the same provider, was
\* applied
ApplyEffectReached ==
    /\ last.op = "apply" /\ last.outcome = "ok"
    /\ current = File(last.args[1])
    /\ Cardinality(DOMAIN history) = 2
    /\ Len(read_all(journal)) = 2
    /\ read_all(journal)[2].operation = "Apply"

\* the commands that read staged.json
ReadStaged == {"add", "remove", "move", "commit", "reset", "push", "pull", "revert",
               "apply"}

\* C31: a corrupt file is surfaced, never discarded or overwritten: when
\* staged.json does not parse, add, remove, move, commit, reset, push, pull,
\* revert and apply fail and leave it as it is; when a line of the journal
\* does not parse, log and revert without a hash fail and leave the journal
\* as it is
CorruptSurfaced ==
    [][/\ (/\ last.op = "none" /\ last'.op \in ReadStaged
            /\ Len(staged) = 2)
           => (last'.outcome = "err" /\ staged' = staged)
       /\ (/\ last.op = "none"
            /\ \/ last'.op = "log"
               \/ last'.op = "revert" /\ last'.args[1] = "None"
            /\ \E i \in 1..Len(read_all(journal)) : read_all(journal)[i] = Garbled)
           => (last'.outcome = "err" /\ journal' = journal)
      ]_vars

\* a commit found a torn staged.json and a log found a garbled line
CorruptSurfacedReached ==
    /\ Len(staged) = 2
    /\ \E i \in 1..Len(read_all(journal)) : read_all(journal)[i] = Garbled
    /\ last.op \in {"commit", "log"}
    /\ last.outcome = "err"

\* C32: commit is crash-safe across its writes: interrupted between any two
\* of its steps it never leaves current holding the post-commit snapshot
\* while staged.json still holds the committed patch, so a commit run again
\* after the interruption does not apply the staged changes a second time
CommitCrashSafe ==
    /\ (pc = "interrupted" /\ last.op = "none") =>
         ~(current = File(applied.snapshot) /\ load_staged(staged) = applied.patch)
    /\ (pc = "interrupted" /\ last.op = "commit") =>
         local.tracks = applied.snapshot.tracks

\* C33: the journal head tracks current: whenever the playlist is tracked,
\* every command having run to completion, the journal is not empty and the
\* hash of its last entry is compute_hash of the current snapshot
JournalHead ==
    Exists(current) =>
      LET entries == read_all(journal) IN
      /\ entries # <<>>
      /\ entries[Len(entries)].snapshot_hash = compute_hash(local)

\* after init, a pull that brought other tracks and a revert to the first
\* snapshot
JournalHeadReached ==
    LET entries == read_all(journal) IN
    /\ Exists(current) /\ last.op = "none"
    /\ Len(entries) = 3
    /\ entries[2].operation = "Pull" /\ entries[3].operation = "Commit"
    /\ entries[3].snapshot_hash = entries[1].snapshot_hash
    /\ entries[2].snapshot_hash # entries[1].snapshot_hash

\* C34: revert without a hash toggles: on a tracked playlist with nothing
\* staged and at least two journal entries, two successful reverts without
\* a hash in a row leave current as it was before the first
RevertToggles ==
    Len(read_all(journal)) = base + 2 => current = File(target)

\* the second revert has succeeded from a log of three entries, the first
\* having changed current
RevertTogglesReached ==
    LET entries == read_all(journal) IN
    /\ base = 3 /\ Len(entries) = 5
    /\ last.op = "revert" /\ last.outcome = "ok"
    /\ entries[4].snapshot_hash = entries[2].snapshot_hash
    /\ entries[5].snapshot_hash = entries[3].snapshot_hash
    /\ entries[1].snapshot_hash # entries[2].snapshot_hash
    /\ entries[1].snapshot_hash # entries[3].snapshot_hash

\* C35: committing k >= 1 staged adds (and nothing else) against a current
\* track list L gives L followed by the k added tracks in the order they
\* were staged; every add records index = length of the committed current
\* list, whatever is staged already
AddsAppend ==
    [][/\ (Succeeds("commit") /\ load_staged(staged) # <<>>
            /\ \A i \in 1..Len(load_staged(staged)) :
                  load_staged(staged)[i].kind = "Added")
           => Content(current').tracks
                = local.tracks \o [i \in 1..Len(load_staged(staged)) |->
                                     load_staged(staged)[i].track]
       /\ Succeeds("add")
           => LET after == load_staged(staged') IN
              after[Len(after)] = Added(last'.args[1], Len(local.tracks))
      ]_vars

\* C36: token refresh is a single critical section: of two get_token calls
\* that interleave while the cached token is expired, one runs its
\* read-check-refresh-write sequence before the other begins its own, so
\* at most one refresh request is made for the expiry (another one only
\* after a refresh that failed) and the second call returns the refreshed
\* token
TokenCritical ==
    /\ Cardinality({t \in (1..NumTasks) : pc[t] \in {"locked", "read", "refresh", "store"}}) <= 1
    /\ applied.refreshes <= applied.failures + 1

\* C37: in every state reached from Queue::new on a non-empty track list
\* through next, previous, toggle_shuffle and jump_to, play_order is a
\* permutation of 0..len(tracks)-1 and current < len(play_order), so
\* current_track() is never None
QueueInvariant ==
    /\ Len(applied.play_order) = Len(applied.tracks)
    /\ \A i \in 0..(Len(applied.tracks) - 1) :
         \E k \in 1..Len(applied.play_order) : applied.play_order[k] = i
    /\ applied.current \in 0..(Len(applied.play_order) - 1)
    /\ current_track(applied) # None

\* a shuffled queue that refused a jump past its end
QueueInvariantReached ==
    /\ pc = "jump_to" /\ patch = None
    /\ applied.shuffle /\ applied.play_order # Sequential(Len(applied.tracks))
    /\ applied.current > 0

\* C38: toggle_shuffle, in either direction, leaves current_track() on the
\* track it was on, and turning shuffle off restores play_order to 0..n-1
ShuffleKeepsTrack ==
    [][pc' = "toggle_shuffle" =>
         /\ current_track(applied') = current_track(applied)
         /\ applied'.shuffle = ~applied.shuffle
         /\ ~applied'.shuffle => applied'.play_order = Sequential(Len(applied.tracks))]_vars

\* shuffle was turned on and the playing track sits at another position
ShuffleKeepsTrackReached ==
    /\ pc = "toggle_shuffle" /\ applied.shuffle
    /\ applied.play_order[applied.current + 1] # applied.current
    /\ applied.play_order # Sequential(Len(applied.tracks))

\* C39: in the mpv player loop the shuffle flag shown to the user
\* (app.shuffle) equals the queue's shuffle flag in every state, also after
\* the snapshot file was reloaded mid-playback and after any number of 's'
\* key presses before or after the reload
ShuffleShown == applied.shuffle = applied.queue.shuffle

====
